---- MODULE Spec2Model ----
(***************************************************************************)
(* A model of src/tree_code.py: the Gini split search find_best_split and  *)
(* the recursive tree growth / prediction of class DecisionTree.           *)
(*                                                                         *)
(* Numbers.  Feature values are small integers.  A threshold is the mean   *)
(* of two feature values, so it is a half-integer: the model stores every  *)
(* threshold DOUBLED (thr2 = 2 * threshold), and the comparison            *)
(* "value < threshold" of the source is "2 * value < thr2" here.           *)
(* Gini scores are exact rationals <<num, den>> in lowest terms, den > 0.  *)
(*                                                                         *)
(* _fit_node.  Lines 177-193 of the source repeat the tail of the loop     *)
(* body (lines 155-173) after the loop.  Read as a second pass over the    *)
(* same column they call find_best_split with the same arguments and       *)
(* compare its best_gini with one that is already at least as large, so    *)
(* they change no local; the model follows the loop of lines 142-173 and   *)
(* the statements from line 195 on.                                        *)
(***************************************************************************)
EXTENDS Integers, Sequences, FiniteSets, TLC

VARIABLES
    feature_vector,  \* find_best_split: argument feature_vector
    target_vector,   \* find_best_split: argument target_vector
    ret,             \* find_best_split: what the call returned or raised
    feature_types,   \* DecisionTree._feature_types
    max_depth,       \* DecisionTree._max_depth
    X,               \* fit: the sample matrix, a sequence of rows
    y,               \* fit: the label vector
    tree,            \* DecisionTree._tree: node id -> node dict
    stack,           \* the call stack of _fit_node, innermost frame last
    status,          \* "untrained", "fitting", "trained" or "error"
    error,           \* the exception that ended fit, "none" if none
    subset,          \* node id -> the rows (indices into X) _fit_node received
    mask,            \* node id -> the rows its split mask routes left
    invoked,         \* the <<node, column>> pairs find_best_split was called for
    query,           \* predict: the argument of the last call
    predicted,       \* predict: the result of the last call
    called           \* whether predict has been called

vars == <<feature_vector, target_vector, ret, feature_types, max_depth, X, y,
          tree, stack, status, error, subset, mask, invoked, query, predicted,
          called>>

splitVars == <<feature_vector, target_vector, ret>>
treeVars == <<feature_types, max_depth, X, y, tree, stack, status, error,
              subset, mask, invoked>>
predictVars == <<query, predicted, called>>

(***************************************************************************)
(* Bounds of the model.                                                    *)
(***************************************************************************)
MaxLen == 4      \* longest vector handed to find_best_split directly
MaxVal == 3      \* feature values and categories are 1..MaxVal
MaxRows == 3     \* most rows of a fitted sample matrix
MaxCols == 2     \* most columns of a fitted sample matrix
MaxCells == 6    \* most cells (rows * columns) of a fitted sample matrix
MaxTallRows == 4 \* most rows of a fitted sample matrix of one column
MaxDepthArg == 1 \* largest max_depth given at construction
MaxQuery == 2    \* most rows of a matrix handed to predict
MaxPredCells == 2 \* most cells of a sample matrix fitted before predicting

\* max_depth=None, the constructor's default
NoDepth == 0

(***************************************************************************)
(* Exact rational arithmetic.                                              *)
(***************************************************************************)
Abs(a) == IF a < 0 THEN -a ELSE a

RECURSIVE Gcd(_, _)
Gcd(a, b) == IF b = 0 THEN a ELSE Gcd(b, a % b)

Rat(a, b) ==
    LET s == IF b < 0 THEN -1 ELSE 1
        g == Gcd(Abs(a), Abs(b))
    IN  <<(s * a) \div g, (s * b) \div g>>

RSub(p, q) == Rat(p[1] * q[2] - q[1] * p[2], p[2] * q[2])
RMul(p, q) == Rat(p[1] * q[1], p[2] * q[2])
RNeg(p) == <<-p[1], p[2]>>
RGreater(p, q) == p[1] * q[2] > q[1] * p[2]
ROne == <<1, 1>>
RZero == <<0, 1>>

(***************************************************************************)
(* numpy helpers used by find_best_split.                                  *)
(***************************************************************************)
Range(s) == {s[i] : i \in DOMAIN s}

\* an array given element by element, as a sequence
Array(f) == f \o <<>>

\* feature_vector < threshold, as the set of positions where it holds
Below(fv, thr2) == {i \in DOMAIN fv : 2 * fv[i] < thr2}

Min(S) == CHOOSE a \in S : \A b \in S : a <= b

RECURSIVE SetToSortedSeq(_)
SetToSortedSeq(S) ==
    IF S = {} THEN <<>> ELSE <<Min(S)>> \o SetToSortedSeq(S \ {Min(S)})

\* np.unique: the sorted distinct elements
unique(a) == SetToSortedSeq(Range(a))

\* np.argsort: any permutation that sorts a (the order of equal elements is
\* not fixed by the default, unstable sort)
ArgSorts(a) ==
    {p \in Permutations(DOMAIN a) :
        \A i, j \in DOMAIN a : i < j => a[p[i]] <= a[p[j]]}

\* a + b on one-dimensional arrays under numpy broadcasting
Broadcastable(a, b) == Len(a) = Len(b) \/ Len(a) = 1 \/ Len(b) = 1

BroadcastAdd(a, b) ==
    IF Len(a) = Len(b) THEN Array([i \in 1..Len(a) |-> a[i] + b[i]])
    ELSE IF Len(a) = 1 THEN Array([i \in 1..Len(b) |-> a[1] + b[i]])
    ELSE Array([i \in 1..Len(a) |-> a[i] + b[1]])

RECURSIVE cumsum(_)
cumsum(a) ==
    IF a = <<>> THEN <<>>
    ELSE LET front == cumsum(SubSeq(a, 1, Len(a) - 1))
         IN  Append(front, (IF front = <<>> THEN 0 ELSE front[Len(front)]) + a[Len(a)])

\* np.searchsorted with side='right': the number of elements not above the
\* threshold
searchsorted_right(sorted_features, thr2) ==
    Cardinality({i \in DOMAIN sorted_features : 2 * sorted_features[i] <= thr2})

\* np.searchsorted(sorted_features, thr2 / 2), side='left', 0-based: the
\* number of elements below the threshold
searchsorted(sorted_features, thr2) ==
    Cardinality({i \in DOMAIN sorted_features : 2 * sorted_features[i] < thr2})

\* np.take(a, i) for a 0-based index i; a negative index counts from the end
take(a, i) == IF i < 0 THEN a[Len(a) + i + 1] ELSE a[i + 1]

\* the last index of a maximal score
argmax_last(ginis) ==
    CHOOSE i \in DOMAIN ginis :
        /\ \A j \in DOMAIN ginis : ~RGreater(ginis[j], ginis[i])
        /\ \A j \in DOMAIN ginis : j > i => RGreater(ginis[i], ginis[j])

\* np.argmax: the first index of a maximal score (1-based)
argmax(ginis) ==
    CHOOSE i \in DOMAIN ginis :
        /\ \A j \in DOMAIN ginis : ~RGreater(ginis[j], ginis[i])
        /\ \A j \in DOMAIN ginis : j < i => RGreater(ginis[i], ginis[j])

\* H = 1 - p^2 - (1 - p)^2
gini_impurity(p) == RSub(RSub(ROne, RMul(p, p)), RMul(RSub(ROne, p), RSub(ROne, p)))

NoResult == [outcome |-> "pending", thresholds |-> <<>>, ginis |-> <<>>,
             best_threshold |-> 0, best_gini |-> RZero]

Raised(exception) == [NoResult EXCEPT !.outcome = exception]

(***************************************************************************)
(* find_best_split(feature_vector, target_vector), with the permutation    *)
(* np.argsort produced.  It returns (thresholds, ginis, best_threshold,    *)
(* best_gini) or raises ValueError: from the addition of two arrays that   *)
(* do not broadcast, or from np.argmax of an empty array.                  *)
(***************************************************************************)
find_best_split(fv, tv, order) ==
    LET n == Len(fv)
        sorted_features == Array([i \in 1..n |-> fv[order[i]]])
        sorted_targets == Array([i \in 1..n |-> tv[order[i]]])
        upper == unique(SubSeq(sorted_features, 2, n))
        lower == unique(SubSeq(sorted_features, 1, n - 1))
    IN  IF ~Broadcastable(upper, lower) THEN Raised("ValueError")
        ELSE
        LET unique_thresholds == unique(BroadcastAdd(upper, lower))
            cumulative_sum == cumsum(sorted_targets)
            cumulative_count == Array([i \in 1..n |-> i])
            split_index(k) == searchsorted(sorted_features, unique_thresholds[k])
            left_sum(k) == take(cumulative_sum, split_index(k) - 1)
            left_count(k) == take(cumulative_count, split_index(k) - 1)
            left_prob(k) == Rat(left_sum(k), left_count(k))
            right_total(k) == cumulative_sum[n] - left_sum(k)
            right_count(k) == n - left_count(k)
            right_prob(k) ==
                IF right_count(k) # 0 THEN Rat(right_total(k), right_count(k))
                ELSE RZero
            h_left(k) == gini_impurity(left_prob(k))
            h_right(k) == gini_impurity(right_prob(k))
            ginis == Array([k \in 1..Len(unique_thresholds) |->
                        RSub(RMul(Rat(-left_count(k), n), h_left(k)),
                             RMul(Rat(right_count(k), n), h_right(k)))])
        IN  IF unique_thresholds = <<>> THEN Raised("ValueError")
            ELSE [outcome |-> "returned",
                  thresholds |-> unique_thresholds,
                  ginis |-> ginis,
                  best_threshold |-> unique_thresholds[argmax(ginis)],
                  best_gini |-> ginis[argmax(ginis)]]

(***************************************************************************)
(* The split search on its own: every feature vector and label vector of   *)
(* equal length, then one call.                                            *)
(***************************************************************************)
IdleTree ==
    /\ feature_types = <<>>
    /\ max_depth = NoDepth
    /\ X = <<>>
    /\ y = <<>>
    /\ tree = <<>>
    /\ stack = <<>>
    /\ status = "untrained"
    /\ error = "none"
    /\ subset = <<>>
    /\ mask = <<>>
    /\ invoked = {}

IdlePredict ==
    /\ query = <<>>
    /\ predicted = <<>>
    /\ called = FALSE

IdleSplit ==
    /\ feature_vector = <<>>
    /\ target_vector = <<>>
    /\ ret = NoResult

InitSplit ==
    /\ \E n \in 1..MaxLen :
        /\ feature_vector \in [1..n -> 1..MaxVal]
        /\ target_vector \in [1..n -> {0, 1}]
    /\ ret = NoResult
    /\ IdleTree
    /\ IdlePredict

CallFindBestSplit ==
    /\ ret.outcome = "pending"
    /\ \E order \in ArgSorts(feature_vector) :
        ret' = find_best_split(feature_vector, target_vector, order)
    /\ UNCHANGED <<feature_vector, target_vector>>
    /\ UNCHANGED treeVars
    /\ UNCHANGED predictVars

NextSplit == CallFindBestSplit

SpecSplit == InitSplit /\ [][NextSplit]_vars

(***************************************************************************)
(* DecisionTree.  Nodes are numbered as in a heap: the root is 1, the      *)
(* children of node v are 2v (left) and 2v + 1 (right).  Columns are       *)
(* numbered from 1.  A node dict is a record; a key the code has not set   *)
(* holds the default of EmptyNode.                                         *)
(***************************************************************************)
EmptyNode == [type |-> "empty", class |-> 0, feature_split |-> 0,
              threshold |-> 0, categories_split |-> <<>>]

NumCols == Len(feature_types)

\* sub_y and a column of sub_X, for the rows a node received (boolean-mask
\* indexing keeps the rows in their original order)
sub_y(rows) ==
    LET rs == SetToSortedSeq(rows) IN Array([i \in DOMAIN rs |-> y[rs[i]]])

column(rows, feature) ==
    LET rs == SetToSortedSeq(rows) IN Array([i \in DOMAIN rs |-> X[rs[i]][feature]])

\* np.all(sub_y == sub_y[0])
all_same(labels) == \A i \in DOMAIN labels : labels[i] = labels[1]

\* Counter(sub_y).most_common(1)[0][0]: the most frequent label, the one
\* counted first among equally frequent ones
Count(labels, c) == Cardinality({i \in DOMAIN labels : labels[i] = c})

FirstIndex(a, c) == Min({i \in DOMAIN a : a[i] = c})

most_common(labels) ==
    CHOOSE c \in Range(labels) :
        \A d \in Range(labels) \ {c} :
            \/ Count(labels, c) > Count(labels, d)
            \/ /\ Count(labels, c) = Count(labels, d)
               /\ FirstIndex(labels, c) < FirstIndex(labels, d)

\* ratio[key] = clicks.get(key, 0) / count
ratio(col, labels, c) ==
    Rat(Cardinality({i \in DOMAIN col : col[i] = c /\ labels[i] = 1}),
        Cardinality({i \in DOMAIN col : col[i] = c}))

\* sorted(ratio, key=ratio.get): ascending by ratio; the sort is stable, so
\* categories of equal ratio stay in the order of their first occurrence
sorted_categories(col, labels) ==
    LET cats == Range(col)
        Before(c, d) ==
            \/ RGreater(ratio(col, labels, d), ratio(col, labels, c))
            \/ /\ ratio(col, labels, d) = ratio(col, labels, c)
               /\ FirstIndex(col, c) < FirstIndex(col, d)
        rank(c) == Cardinality({d \in cats : Before(d, c)})
    IN  Array([r \in 1..Cardinality(cats) |-> CHOOSE c \in cats : rank(c) = r - 1])

\* the numeric feature vector of one column at a node; categories_map sends a
\* category to its 0-based position in sorted_categories
encode(rows, feature) ==
    LET col == column(rows, feature)
    IN  IF feature_types[feature] = "real" THEN col
        ELSE LET sc == sorted_categories(col, sub_y(rows))
             IN  Array([i \in DOMAIN col |-> FirstIndex(sc, col[i]) - 1])

\* len(np.unique(feature_vector)) < 1
skipped_if_empty(fv) == Cardinality(Range(fv)) < 1

\* len(np.unique(feature_vector)) <= 1
skipped(fv) == Cardinality(Range(fv)) <= 1

\* gini_best is None or (gini is not None and gini >= gini_best)
improves_or_ties(found, gini, gini_best) == ~found \/ ~RGreater(gini_best, gini)

\* gini_best is None or (gini is not None and gini > gini_best)
improves(found, gini, gini_best) == ~found \/ RGreater(gini, gini_best)

\* split = feature_vector < threshold, as the set of rows routed left
split_mask(rows, fv, thr2) ==
    LET rs == SetToSortedSeq(rows) IN {rs[i] : i \in Below(fv, thr2)}

\* [k for k, v in categories_map.items() if v < threshold]
left_categories(col, labels, thr2) ==
    LET sc == sorted_categories(col, labels)
    IN  SubSeq(sc, 1, Cardinality({r \in DOMAIN sc : 2 * (r - 1) < thr2}))

\* a frame of _fit_node: its arguments, its position and its locals.
\* found stands for "gini_best is not None"; threshold_best holds the winning
\* threshold of a real column, categories_best the list kept for a
\* categorical one.
Frame(node, rows) ==
    [node |-> node, rows |-> rows, pc |-> "enter", feature |-> 1,
     found |-> FALSE, feature_best |-> 0, threshold_best |-> 0,
     categories_best |-> <<>>, gini_best |-> RZero, split |-> {}]

Top == stack[Len(stack)]

SetTop(frame) == [stack EXCEPT ![Len(stack)] = frame]

Abort(exception) ==
    /\ status' = "error"
    /\ error' = exception
    /\ stack' = <<>>

\* the instance after __init__ and the arguments fit will get: a matrix of
\* at most rows rows, cols columns and cells cells.  Each column holds the values 1..k for some
\* k <= MaxVal: fit reads the values of a column only through their order
\* and their equality.
Untrained(rows, cols, cells) ==
    /\ \E n \in 1..rows, m \in 1..cols :
        /\ n * m <= cells
        /\ X \in [1..n -> [1..m -> 1..MaxVal]]
        /\ \A f \in 1..m :
             {X[i][f] : i \in 1..n} = 1..Cardinality({X[i][f] : i \in 1..n})
        /\ y \in [1..n -> {0, 1}]
        /\ feature_types \in [1..m -> {"real", "categorical"}]
    /\ tree = (1 :> EmptyNode)
    /\ stack = <<>>
    /\ status = "untrained"
    /\ error = "none"
    /\ subset = <<>>
    /\ mask = <<>>
    /\ invoked = {}

\* fit(X, y): self._fit_node(X, y, self._tree)
fit ==
    /\ status = "untrained"
    /\ status' = "fitting"
    /\ stack' = <<Frame(1, DOMAIN X)>>
    /\ subset' = (1 :> DOMAIN X)
    /\ UNCHANGED <<feature_types, max_depth, X, y, tree, error, mask, invoked>>
    /\ UNCHANGED splitVars
    /\ UNCHANGED predictVars

\* _fit_node, the pure-label stop: sub_y[0] raises IndexError on a node
\* without rows
fit_node_enter ==
    /\ status = "fitting"
    /\ Top.pc = "enter"
    /\ IF Top.rows = {}
       THEN /\ Abort("IndexError")
            /\ UNCHANGED tree
       ELSE IF all_same(sub_y(Top.rows))
       THEN /\ tree' = [tree EXCEPT ![Top.node] =
                          [@ EXCEPT !.type = "terminal",
                                    !.class = sub_y(Top.rows)[1]]]
            /\ stack' = SetTop([Top EXCEPT !.pc = "return"])
            /\ UNCHANGED <<status, error>>
       ELSE /\ stack' = SetTop([Top EXCEPT !.pc = "loop"])
            /\ UNCHANGED <<tree, status, error>>
    /\ UNCHANGED <<feature_types, max_depth, X, y, subset, mask, invoked>>
    /\ UNCHANGED splitVars
    /\ UNCHANGED predictVars

\* one pass of the loop over the columns, for the frame fr and the permutation
\* np.argsort gives: whether find_best_split was called, what it raised, and
\* the frame with the locals as the pass leaves them
loop_body(fr, order) ==
    LET f == fr.feature
        fv == encode(fr.rows, f)
        labels == sub_y(fr.rows)
        next == [fr EXCEPT !.feature = f + 1]
        r == find_best_split(fv, labels, order)
    IN  IF skipped(fv)
        THEN [called |-> FALSE, raised |-> "none", frame |-> next]
        ELSE IF r.outcome # "returned"
        THEN [called |-> TRUE, raised |-> r.outcome, frame |-> fr]
        ELSE IF improves(fr.found, r.best_gini, fr.gini_best)
        THEN [called |-> TRUE, raised |-> "none", frame |->
                [next EXCEPT
                    !.found = TRUE,
                    !.feature_best = f,
                    !.gini_best = r.best_gini,
                    !.split = split_mask(fr.rows, fv, r.best_threshold),
                    !.threshold_best =
                        IF feature_types[f] = "real" THEN r.best_threshold ELSE @,
                    !.categories_best =
                        IF feature_types[f] = "categorical"
                        THEN left_categories(column(fr.rows, f), labels,
                                             r.best_threshold)
                        ELSE @]]
        ELSE [called |-> TRUE, raised |-> "none", frame |-> next]

\* _fit_node, one pass of the loop over the columns
fit_node_column ==
    /\ status = "fitting"
    /\ Top.pc = "loop"
    /\ Top.feature <= NumCols
    /\ \E pass \in {loop_body(Top, order) :
                      order \in ArgSorts(encode(Top.rows, Top.feature))} :
        /\ invoked' = IF pass.called
                      THEN invoked \cup {<<Top.node, Top.feature>>}
                      ELSE invoked
        /\ IF pass.raised # "none"
           THEN Abort(pass.raised)
           ELSE /\ stack' = SetTop(pass.frame)
                /\ UNCHANGED <<status, error>>
    /\ UNCHANGED <<feature_types, max_depth, X, y, tree, subset, mask>>
    /\ UNCHANGED splitVars
    /\ UNCHANGED predictVars

\* _fit_node after the loop: the majority-class terminal node when no column
\* gave a split, else the internal node and the call for the left child
fit_node_decide ==
    /\ status = "fitting"
    /\ Top.pc = "loop"
    /\ Top.feature > NumCols
    /\ IF ~Top.found
       THEN /\ tree' = [tree EXCEPT ![Top.node] =
                          [@ EXCEPT !.type = "terminal",
                                    !.class = most_common(sub_y(Top.rows))]]
            /\ stack' = SetTop([Top EXCEPT !.pc = "return"])
            /\ UNCHANGED <<subset, mask>>
       ELSE /\ tree' =
                [tree EXCEPT ![Top.node] =
                    [@ EXCEPT !.type = "nonterminal",
                              !.feature_split = Top.feature_best,
                              !.threshold =
                                 IF feature_types[Top.feature_best] = "real"
                                 THEN Top.threshold_best ELSE @,
                              !.categories_split =
                                 IF feature_types[Top.feature_best] = "categorical"
                                 THEN Top.categories_best ELSE @]]
                @@ (2 * Top.node :> EmptyNode) @@ (2 * Top.node + 1 :> EmptyNode)
            /\ mask' = mask @@ (Top.node :> Top.split)
            /\ subset' = subset @@ (2 * Top.node :> Top.split)
            /\ stack' = Append(SetTop([Top EXCEPT !.pc = "left"]),
                               Frame(2 * Top.node, Top.split))
    /\ UNCHANGED <<feature_types, max_depth, X, y, status, error, invoked>>
    /\ UNCHANGED splitVars
    /\ UNCHANGED predictVars

\* a call of _fit_node returns: fit is over, or the caller goes on with the
\* call for its right child, or the caller itself is done
fit_node_return ==
    /\ status = "fitting"
    /\ Top.pc = "return"
    /\ IF Len(stack) = 1
       THEN /\ stack' = <<>>
            /\ status' = "trained"
            /\ UNCHANGED subset
       ELSE LET caller == stack[Len(stack) - 1]
                rest == SubSeq(stack, 1, Len(stack) - 2)
            IN  IF caller.pc = "left"
                THEN /\ stack' = rest \o <<[caller EXCEPT !.pc = "right"],
                                           Frame(2 * caller.node + 1,
                                                 caller.rows \ caller.split)>>
                     /\ subset' = subset @@
                            (2 * caller.node + 1 :> caller.rows \ caller.split)
                     /\ UNCHANGED status
                ELSE /\ stack' = Append(rest, [caller EXCEPT !.pc = "return"])
                     /\ UNCHANGED <<status, subset>>
    /\ UNCHANGED <<feature_types, max_depth, X, y, tree, error, mask, invoked>>
    /\ UNCHANGED splitVars
    /\ UNCHANGED predictVars

\* _predict_node(x, node) on the tree t
RECURSIVE predict_node(_, _, _)
predict_node(t, x, v) ==
    IF t[v].type = "terminal" THEN t[v].class
    ELSE LET feature == t[v].feature_split
         IN  IF feature_types[feature] = "real"
             THEN IF 2 * x[feature] < t[v].threshold
                  THEN predict_node(t, x, 2 * v)
                  ELSE predict_node(t, x, 2 * v + 1)
             ELSE IF x[feature] \in Range(t[v].categories_split)
                  THEN predict_node(t, x, 2 * v)
                  ELSE predict_node(t, x, 2 * v + 1)

\* the matrices handed to predict: up to MaxQuery rows, each a row of the
\* training matrix or a row of a value never seen in training
Queries ==
    LET rows == Range(X) \cup {[f \in 1..NumCols |-> MaxVal + 1]}
    IN  UNION {[1..k -> rows] : k \in 1..MaxQuery}

\* predict with a _predict_node that pops the root's split instead of
\* reading it
predict_popping ==
    /\ status = "trained"
    /\ \E Xq \in Queries :
        /\ query' = Xq
        /\ predicted' = Array([i \in DOMAIN Xq |-> predict_node(tree, Xq[i], 1)])
    /\ called' = TRUE
    /\ tree' = [tree EXCEPT ![1].threshold = 0, ![1].categories_split = <<>>]
    /\ UNCHANGED <<feature_types, max_depth, X, y, stack, status, error,
                   subset, mask, invoked>>
    /\ UNCHANGED splitVars

\* predict(X)
predict ==
    /\ status = "trained"
    /\ \E Xq \in Queries :
        /\ query' = Xq
        /\ predicted' = Array([i \in DOMAIN Xq |-> predict_node(tree, Xq[i], 1)])
    /\ called' = TRUE
    /\ UNCHANGED treeVars
    /\ UNCHANGED splitVars

\* DecisionTree(feature_types), then fit
Init ==
    /\ Untrained(MaxRows, MaxCols, MaxCells)
    /\ max_depth = NoDepth
    /\ IdleSplit
    /\ IdlePredict

Next ==
    \/ fit
    \/ fit_node_enter
    \/ fit_node_column
    \/ fit_node_decide
    \/ fit_node_return

Spec == Init /\ [][Next]_vars

\* DecisionTree(feature_types, max_depth=d), then fit
InitDepth ==
    /\ Untrained(MaxRows, MaxCols, MaxCells)
    /\ max_depth \in 1..MaxDepthArg
    /\ IdleSplit
    /\ IdlePredict

SpecDepth == InitDepth /\ [][Next]_vars

\* DecisionTree(feature_types) for one column, then fit on a taller matrix
InitTall ==
    /\ Untrained(MaxTallRows, 1, MaxTallRows)
    /\ max_depth = NoDepth
    /\ IdleSplit
    /\ IdlePredict

SpecTall == InitTall /\ [][Next]_vars

\* DecisionTree(feature_types), fit, then any number of predict calls
InitPredict ==
    /\ Untrained(MaxRows, MaxCols, MaxPredCells)
    /\ max_depth = NoDepth
    /\ IdleSplit
    /\ IdlePredict

NextPredict ==
    \/ Next
    \/ predict

SpecPredict == InitPredict /\ [][NextPredict]_vars

(***************************************************************************)
(* Claims about find_best_split (checked under SpecSplit).                 *)
(***************************************************************************)
Returned == ret.outcome = "returned"

NotBelow(fv, thr2) == {i \in DOMAIN fv : 2 * fv[i] >= thr2}

\* thr2 / 2 is the mean of two distinct values of fv that are consecutive in
\* sorted order
IsMidpoint(fv, thr2) ==
    \E a, b \in Range(fv) :
        /\ a < b
        /\ \A c \in Range(fv) : ~(a < c /\ c < b)
        /\ thr2 = a + b

\* C2: for vectors of equal length >= 2 with at least two distinct feature
\* values, every returned threshold (best_threshold among them) is the midpoint
\* of two distinct consecutive sorted values, so at least one sample is below
\* it and at least one is not.
C2_ThresholdsAreMidpoints ==
    (/\ Returned
     /\ Len(feature_vector) >= 2
     /\ Cardinality(Range(feature_vector)) >= 2)
    => /\ \A k \in DOMAIN ret.thresholds :
            /\ IsMidpoint(feature_vector, ret.thresholds[k])
            /\ Below(feature_vector, ret.thresholds[k]) # {}
            /\ NotBelow(feature_vector, ret.thresholds[k]) # {}
       /\ IsMidpoint(feature_vector, ret.best_threshold)

\* C3: best_gini is the maximum of ginis, and best_threshold is the smallest
\* threshold whose score attains that maximum.
C3_BestIsFirstMaximum ==
    Returned =>
        LET best == {k \in DOMAIN ret.ginis : ret.ginis[k] = ret.best_gini}
        IN  /\ \A k \in DOMAIN ret.ginis : ~RGreater(ret.ginis[k], ret.best_gini)
            /\ best # {}
            /\ ret.best_threshold = Min({ret.thresholds[k] : k \in best})
            /\ \A k \in DOMAIN ret.thresholds :
                 k > 1 => ret.thresholds[k - 1] < ret.thresholds[k]

\* C3's case: two thresholds that split the samples differently tie at the
\* maximum, and the smaller one is returned
C3_Witness ==
    /\ Returned
    /\ \E j, k \in DOMAIN ret.ginis :
        /\ j < k
        /\ ret.ginis[j] = ret.best_gini
        /\ ret.ginis[k] = ret.best_gini
        /\ ret.best_threshold = ret.thresholds[j]
        /\ Below(feature_vector, ret.thresholds[j]) # {}
        /\ Below(feature_vector, ret.thresholds[j]) #
              Below(feature_vector, ret.thresholds[k])
        /\ ret.best_gini # RZero

\* the impurity of a group of rows from its definition, 1 - p^2 - (1 - p)^2
\* with p the fraction of label 1; 0 for a group without rows
NaiveH(tv, G) ==
    IF G = {} THEN RZero
    ELSE LET p == Rat(Cardinality({i \in G : tv[i] = 1}), Cardinality(G))
             q == Rat(Cardinality({i \in G : tv[i] = 0}), Cardinality(G))
         IN  RSub(RSub(ROne, RMul(p, p)), RMul(q, q))

NaiveScore(fv, tv, thr2) ==
    LET n == Len(fv)
        L == Below(fv, thr2)
        R == DOMAIN fv \ L
    IN  RSub(RNeg(RMul(Rat(Cardinality(L), n), NaiveH(tv, L))),
             RMul(Rat(Cardinality(R), n), NaiveH(tv, R)))

\* C5: the score paired with every returned threshold t equals the weighted
\* impurity recomputed from the grouping itself,
\* -(n_left/n) * H(left) - (n_right/n) * H(right), left = the samples with
\* value < t, right = the others, H of a group without samples being 0.
C5_GinisMatchNaive ==
    Returned =>
        \A k \in DOMAIN ret.thresholds :
            ret.ginis[k] =
                NaiveScore(feature_vector, target_vector, ret.thresholds[k])

\* C5's case: a returned threshold with two impure groups of two or more
\* samples each
C5_Witness ==
    /\ Returned
    /\ \E k \in DOMAIN ret.thresholds :
        LET L == Below(feature_vector, ret.thresholds[k])
            R == NotBelow(feature_vector, ret.thresholds[k])
        IN  /\ Cardinality(L) >= 2
            /\ Cardinality(R) >= 2
            /\ NaiveH(target_vector, L) # RZero
            /\ NaiveH(target_vector, R) # RZero
            /\ ret.ginis[k] # RZero

\* the scenario [1,2,3,4] with labels [0,0,1,1]: best_threshold 2.5 and
\* best_gini 0
Scenario_PerfectSplit ==
    (feature_vector = <<1, 2, 3, 4>> /\ target_vector = <<0, 0, 1, 1>> /\ Returned)
    => ret.best_threshold = 5 /\ ret.best_gini = RZero /\ ret.thresholds = <<3, 5, 7>>


(***************************************************************************)
(* Claims about fit (C1, C4 and C6 checked under SpecTall, C7 under        *)
(* SpecDepth, C9 and C10 under Spec).                                      *)
(***************************************************************************)
FitOver == status \in {"trained", "error"}

\* the depth of node v, the root being at depth 0
RECURSIVE Depth(_)
Depth(v) == IF v <= 1 THEN 0 ELSE 1 + Depth(v \div 2)

\* C1: at every internal node the split mask partitions the node's samples
\* into a left and a right subset, |left| + |right| = |parent|, both
\* non-empty.
C1_SplitPartitions ==
    \A v \in DOMAIN mask :
        LET left == mask[v]
            right == subset[v] \ mask[v]
        IN  /\ left \subseteq subset[v]
            /\ Cardinality(left) + Cardinality(right) = Cardinality(subset[v])
            /\ left # {}
            /\ right # {}

\* C4: fit terminates by completing the tree: it never aborts, and when it is
\* over every node it created is a terminal or an internal node.
C4_FitCompletes ==
    /\ status # "error"
    /\ FitOver => \A v \in DOMAIN tree : tree[v].type # "empty"

\* every row of category c has label 0
PureZero(c) == \A i \in DOMAIN X : X[i][1] = c => y[i] = 0

SeparableByCategory ==
    /\ NumCols = 1
    /\ feature_types[1] = "categorical"
    /\ \A i, j \in DOMAIN X : X[i][1] = X[j][1] => y[i] = y[j]
    /\ Range(y) = {0, 1}

\* C6: a single categorical column whose labels are separable by category
\* (both labels occurring) is fitted to an internal root whose left-routed
\* category set holds exactly the categories whose rows all have label 0.
C6_SeparableCategories ==
    (SeparableByCategory /\ FitOver) =>
        /\ status = "trained"
        /\ tree[1].type = "nonterminal"
        /\ Range(tree[1].categories_split) =
              {X[i][1] : i \in {j \in DOMAIN X : PureZero(X[j][1])}}

\* C7: with max_depth set, no internal node of the tree is at depth
\* >= max_depth.
C7_MaxDepthEnforced ==
    max_depth # NoDepth =>
        \A v \in DOMAIN tree :
            tree[v].type = "nonterminal" => Depth(v) < max_depth

\* the columns of node v with two or more distinct encoded values
Usable(v) ==
    {f \in 1..NumCols : Cardinality(Range(encode(subset[v], f))) >= 2}

\* what find_best_split gives for each usable column on the rows of node v
ColumnBests(v) ==
    Array([f \in 1..NumCols |->
             IF f \in Usable(v)
             THEN LET fv == encode(subset[v], f)
                  IN  find_best_split(fv, sub_y(subset[v]),
                                      CHOOSE o \in ArgSorts(fv) : TRUE)
             ELSE NoResult])

\* the usable columns whose best_gini is maximal, given each column's result
Maximal(v, bests) ==
    {f \in Usable(v) :
        \A g \in Usable(v) : ~RGreater(bests[g].best_gini, bests[f].best_gini)}

\* C9: at every internal node of the tree fit leaves behind, the recorded split
\* feature is the lowest-index column among the non-skipped columns whose
\* best_gini is maximal, and the recorded threshold (or left category set) and
\* the split mask are those of that column.
C9_FirstBestColumnWins ==
    FitOver =>
        \A v \in DOMAIN mask :
            LET bests == ColumnBests(v)
                w == Min(Maximal(v, bests))
                fv == encode(subset[v], w)
                rs == SetToSortedSeq(subset[v])
                thr2 == bests[w].best_threshold
                left == {rs[i] : i \in {j \in DOMAIN fv : 2 * fv[j] < thr2}}
            IN  /\ tree[v].type = "nonterminal"
                /\ tree[v].feature_split = w
                /\ mask[v] = left
                /\ feature_types[w] = "real" => tree[v].threshold = thr2
                /\ feature_types[w] = "categorical" =>
                      Range(tree[v].categories_split) = {X[i][w] : i \in left}

\* C9's case: an internal node where two usable columns tie at the maximal
\* best_gini with different split masks, and the first column is recorded
C9_Witness ==
    /\ status = "trained"
    /\ \E v \in DOMAIN mask :
        LET bests == ColumnBests(v)
        IN  /\ Usable(v) = {1, 2}
            /\ tree[v].feature_split = 1
            /\ bests[2].best_gini = bests[1].best_gini
            /\ split_mask(subset[v], encode(subset[v], 2),
                          bests[2].best_threshold) # mask[v]

\* an internal node where the second column replaced the first because its
\* best_gini is strictly greater
C9_Replaced ==
    /\ status = "trained"
    /\ \E v \in DOMAIN mask :
        LET bests == ColumnBests(v)
        IN  /\ Usable(v) = {1, 2}
            /\ tree[v].feature_split = 2
            /\ RGreater(bests[2].best_gini, bests[1].best_gini)

\* the labels of node v are mixed and each column is constant on its rows
NoUsableColumn(v) ==
    /\ subset[v] # {}
    /\ \E i, j \in subset[v] : y[i] # y[j]
    /\ \A f \in 1..NumCols : \A i, j \in subset[v] : X[i][f] = X[j][f]

\* the majority label of a set of rows, the label of the first row on a tie
Majority(rows) ==
    LET ones == Cardinality({i \in rows : y[i] = 1})
        zeros == Cardinality({i \in rows : y[i] = 0})
    IN  IF ones > zeros THEN 1
        ELSE IF zeros > ones THEN 0
        ELSE y[Min(rows)]

\* C10: when the labels of a node are mixed and every column is skipped as
\* constant, find_best_split is never invoked for the node and the node
\* becomes terminal with the majority label, the label occurring first in the
\* node's label vector when both are equally frequent.
C10_NoUsableColumn ==
    \A v \in DOMAIN subset :
        NoUsableColumn(v) =>
            /\ \A f \in 1..NumCols : <<v, f>> \notin invoked
            /\ tree[v].type \in {"empty", "terminal"}
            /\ tree[v].type = "terminal" => tree[v].class = Majority(subset[v])
            /\ (FitOver \/ \A k \in DOMAIN stack : stack[k].node # v) =>
                  tree[v].type = "terminal"

\* C10's case: a child node with as many rows of label 0 as of label 1, the
\* first of label 1, and only constant columns, made terminal with class 1
C10_Witness ==
    \E v \in DOMAIN subset :
        /\ v > 1
        /\ NoUsableColumn(v)
        /\ Cardinality({i \in subset[v] : y[i] = 1}) =
              Cardinality({i \in subset[v] : y[i] = 0})
        /\ y[Min(subset[v])] = 1
        /\ tree[v].type = "terminal"
        /\ tree[v].class = 1
        /\ status = "trained"

(***************************************************************************)
(* Claims about predict (checked under SpecPredict).                       *)
(***************************************************************************)
\* C8: after fit, predict leaves the tree unchanged, returns one label per
\* input row in input order (the label the row reaches on its own), and a
\* call with the same input as the call before returns the same output.
C8_PredictLeavesTree ==
    [][status = "trained" =>
        /\ tree' = tree
        /\ status' = "trained"
        /\ called' =>
            /\ Len(predicted') = Len(query')
            /\ \A i \in DOMAIN query' :
                 predicted'[i] = predict_node(tree, query'[i], 1)
        /\ (called /\ query' = query) => predicted' = predicted]_vars

\* C8's case: predict was called on two rows of a tree with an internal root
\* and sent them to different labels
C8_Witness ==
    /\ called
    /\ status = "trained"
    /\ tree[1].type = "nonterminal"
    /\ Len(query) = 2
    /\ predicted[1] # predicted[2]


====
